---- MODULE Spec2Model ----
(***************************************************************************)
(* Model of scanner.py: a threaded TCP port scanner.  main() reads the     *)
(* configuration, optionally opens a CSV file, starts threads_count        *)
(* daemon threads running worker(), puts every port on the shared Queue q, *)
(* waits with q.join(), puts one stop_signal per thread, waits again,      *)
(* closes the CSV file and prints the summary.                             *)
(*                                                                         *)
(* q is a queue.Queue of the standard library: put appends an item and     *)
(* increments the unfinished-task count, get blocks while the queue is     *)
(* empty and removes the oldest item, task_done decrements the count and   *)
(* join blocks while the count is positive.                                *)
(***************************************************************************)
EXTENDS Integers, Sequences, FiniteSets

(* ---------------------------------------------------------------- bounds *)

\* threads_count is 50 in the source; the model runs 1..MaxThreads threads.
MaxThreads == 2

\* The longest port list: the width of the range the user may type and the
\* number of COMMON_PORTS entries the model keeps.
MaxPorts == 2

(* ------------------------------------------------------ program constants *)

\* The lowest port a range may start at (start_port < 1 is rejected).
MinPort == 1

\* The highest port a range may end at (end_port > 65535 is rejected).
MaxPort == 65535

\* The keys of COMMON_PORTS, in the order of the dict literal.
COMMON_PORTS_KEYS ==
    << 20, 21, 22, 23, 25, 53, 67, 69, 80, 110, 123, 139, 143, 161, 194,
       443, 445, 587, 631, 993, 995, 1433, 1521, 2049, 3306, 3389, 5432,
       5900, 6379, 8080 >>

\* The part of the table the model keeps: its first MaxPorts - 1 keys.
COMMON_PORTS == { COMMON_PORTS_KEYS[i] : i \in 1..(MaxPorts - 1) }

\* stop_signal = object(): a value that is no port.
stop_signal == -1

(* ----------------------------------------------------------------- inputs *)

\* The first port of the ranges the user types in the model.
RangeLo == COMMON_PORTS_KEYS[2]

\* What the user may type as start and end of the range: in-range values,
\* 0 (below MinPort) and MaxPort + 1.
StartChoices == {0} \cup (RangeLo..(RangeLo + MaxPorts - 1))
EndChoices == (RangeLo..(RangeLo + MaxPorts - 1)) \cup {MaxPort + 1}

AllPorts == COMMON_PORTS \cup (RangeLo..(RangeLo + MaxPorts - 1))

VARIABLES
    empty_req,     \* TRUE when the user asked for an empty range (start > end)
    ports,         \* main: the list of ports to scan
    save_csv,      \* main: save_csv
    threads_count, \* the module-level setting threads_count
    mpc,           \* main: position in the code
    started,       \* main: len(threads)
    enq,           \* main: number of ports put on q so far
    poisoned,      \* main: number of stop_signal put on q so far
    csv_file,      \* main: "none", "open" or "closed"
    csv_header,    \* TRUE once the header row is in the file
    error,         \* the exception that left main: "none", "open", "header", "scan"
    summary,       \* the open ports the summary reports (set when mpc = "done")
    q,             \* the items in q, oldest first
    unfinished,    \* q.unfinished_tasks
    wpc,           \* each worker thread's position in the code
    item,          \* worker: item
    is_open,       \* worker: is_open
    print_lock,    \* the holder of print_lock, 0 when free
    csv_lock,      \* the holder of csv_lock, 0 when free
    open_ports,    \* the module-level list open_ports
    console,       \* the per-port lines printed, oldest first: <<port, status>>
    csv_rows,      \* the data rows written to the CSV file: <<port, status>>
    probes,        \* how many times scan_port returned for each port
    probed_open,   \* the ports for which scan_port returned True
    open_sockets,  \* the threads whose scan_port holds a socket not yet closed
    connected      \* the ports on which a connection attempt succeeded

vars ==
    << empty_req, ports, save_csv, threads_count, mpc, started, enq,
       poisoned, csv_file, csv_header, error, summary, q, unfinished, wpc,
       item, is_open, print_lock, csv_lock, open_ports, console, csv_rows,
       probes, probed_open, open_sockets, connected >>

Threads == 1..MaxThreads

(* ---------------------------------------------------------------- helpers *)

Min(S) == CHOOSE x \in S : \A y \in S : x <= y

\* sorted(...) of a collection without duplicates: ascending order.
RECURSIVE Sorted(_)
Sorted(S) == IF S = {} THEN << >> ELSE << Min(S) >> \o Sorted(S \ {Min(S)})

\* list(range(a, b + 1))
Range(a, b) == [i \in 1..(b - a + 1) |-> a + i - 1]

Elems(s) == { s[i] : i \in 1..Len(s) }

\* main, the port list: a valid range, else the common ports.
ParsePorts(m, s, e) ==
    IF m = "r"
    THEN IF s < MinPort \/ e > MaxPort \/ s > e
         THEN Sorted(COMMON_PORTS)
         ELSE Range(s, e)
    ELSE Sorted(COMMON_PORTS)

\* Did the user ask for an empty range?  (Not kept by the program.)
EmptyRequest(m, s, e) == m = "r" /\ s > e

Status(b) == IF b THEN "OPEN" ELSE "CLOSED"

(* ------------------------------------------------------------------- Init *)

Init ==
    /\ empty_req = FALSE
    /\ ports = << >>
    /\ save_csv = FALSE
    /\ threads_count = 1
    /\ mpc = "input"
    /\ started = 0
    /\ enq = 0
    /\ poisoned = 0
    /\ csv_file = "none"
    /\ csv_header = FALSE
    /\ error = "none"
    /\ summary = << >>
    /\ q = << >>
    /\ unfinished = 0
    /\ wpc = [w \in Threads |-> "idle"]
    /\ item = [w \in Threads |-> 0]
    /\ is_open = [w \in Threads |-> FALSE]
    /\ print_lock = 0
    /\ csv_lock = 0
    /\ open_ports = << >>
    /\ console = << >>
    /\ csv_rows = << >>
    /\ probes = [p \in AllPorts |-> 0]
    /\ probed_open = {}
    /\ open_sockets = {}
    /\ connected = {}

(* ------------------------------------------------------------------- main *)

\* Lines 103-126: the prompts.  The port list is the typed range when it is
\* valid and the common ports otherwise; threads_count threads will run.
MainReadConfig ==
    /\ mpc = "input"
    /\ \E m \in {"c", "r"}, s \in StartChoices, e \in EndChoices :
         /\ m = "c" => (s = 0 /\ e = RangeLo)   \* the range is not asked for
         /\ ports' = ParsePorts(m, s, e)
         /\ empty_req' = EmptyRequest(m, s, e)
    /\ save_csv' \in BOOLEAN
    /\ threads_count' \in 1..MaxThreads
    /\ mpc' = "open_csv"
    /\ UNCHANGED << started, enq, poisoned, csv_file, csv_header, error, summary,
                    q, unfinished, wpc, item, is_open, print_lock, csv_lock,
                    open_ports, console, csv_rows, probes, probed_open,
                    open_sockets, connected >>

\* MainOpenCsv with the failure of open() caught and the scan going on
\* without a file.
MainOpenCsv_swallow ==
    /\ mpc = "open_csv"
    /\ IF save_csv
       THEN \/ /\ csv_file' = "open"
               /\ mpc' = "header"
               /\ error' = error
            \/ /\ csv_file' = csv_file
               /\ mpc' = "start"
               /\ error' = "open"
       ELSE /\ csv_file' = "none"
            /\ mpc' = "start"
            /\ error' = error
    /\ UNCHANGED << empty_req, ports, save_csv, threads_count, started, enq,
                    poisoned, csv_header, summary,
                    q, unfinished, wpc, item, is_open, print_lock, csv_lock,
                    open_ports, console, csv_rows, probes, probed_open,
                    open_sockets, connected >>

\* Lines 136-137 and 140-142: open(csv_name, "w") succeeds or raises OSError;
\* the call is outside the try block, so the exception leaves main.
MainOpenCsv ==
    /\ mpc = "open_csv"
    /\ IF save_csv
       THEN \/ /\ csv_file' = "open"
               /\ mpc' = "header"
               /\ error' = error
            \/ /\ csv_file' = csv_file
               /\ mpc' = "raised"
               /\ error' = "open"
       ELSE /\ csv_file' = "none"
            /\ mpc' = "start"
            /\ error' = error
    /\ UNCHANGED << empty_req, ports, save_csv, threads_count, started, enq,
                    poisoned, csv_header, summary,
                    q, unfinished, wpc, item, is_open, print_lock, csv_lock,
                    open_ports, console, csv_rows, probes, probed_open,
                    open_sockets, connected >>

\* Lines 138-139: the header row; a failing write raises out of main, again
\* outside the try block.
MainWriteHeader ==
    /\ mpc = "header"
    /\ \E raises \in BOOLEAN :
         IF raises
         THEN /\ mpc' = "raised"
              /\ error' = "header"
              /\ csv_header' = csv_header
         ELSE /\ mpc' = "start"
              /\ error' = error
              /\ csv_header' = TRUE
    /\ UNCHANGED << empty_req, ports, save_csv, threads_count, started, enq,
                    poisoned, csv_file, summary,
                    q, unfinished, wpc, item, is_open, print_lock, csv_lock,
                    open_ports, console, csv_rows, probes, probed_open,
                    open_sockets, connected >>

\* Lines 146-150: one iteration of the loop that starts the threads.
MainStartThread ==
    /\ mpc = "start"
    /\ started < threads_count
    /\ started' = started + 1
    /\ wpc' = [wpc EXCEPT ![started + 1] = "get"]
    /\ mpc' = IF started + 1 = threads_count THEN "enqueue" ELSE "start"
    /\ UNCHANGED << empty_req, ports, save_csv, threads_count, enq,
                    poisoned, csv_file, csv_header, error, summary,
                    q, unfinished, item, is_open, print_lock, csv_lock,
                    open_ports, console, csv_rows, probes, probed_open,
                    open_sockets, connected >>

\* MainEnqueue giving up the remaining ports as soon as no task is unfinished.
MainEnqueue_stopWhenDrained ==
    /\ mpc = "enqueue"
    /\ IF enq < Len(ports) /\ ~(enq > 0 /\ unfinished = 0)
       THEN /\ q' = Append(q, ports[enq + 1])
            /\ unfinished' = unfinished + 1
            /\ enq' = enq + 1
            /\ mpc' = mpc
       ELSE /\ mpc' = "join1"
            /\ UNCHANGED << q, unfinished, enq >>
    /\ UNCHANGED << empty_req, ports, save_csv, threads_count, started,
                    poisoned, csv_file, csv_header, error, summary,
                    wpc, item, is_open, print_lock, csv_lock,
                    open_ports, console, csv_rows, probes, probed_open,
                    open_sockets, connected >>

\* MainEnqueue followed by no q.join() and no stop_signal: main goes to the
\* finally block right after the last q.put(port).
MainEnqueue_noJoin ==
    /\ mpc = "enqueue"
    /\ IF enq < Len(ports)
       THEN /\ q' = Append(q, ports[enq + 1])
            /\ unfinished' = unfinished + 1
            /\ enq' = enq + 1
            /\ mpc' = mpc
       ELSE /\ mpc' = "finally"
            /\ UNCHANGED << q, unfinished, enq >>
    /\ UNCHANGED << empty_req, ports, save_csv, threads_count, started,
                    poisoned, csv_file, csv_header, error, summary,
                    wpc, item, is_open, print_lock, csv_lock,
                    open_ports, console, csv_rows, probes, probed_open,
                    open_sockets, connected >>

\* MainEnqueue with the loop ending one port early.
MainEnqueue_skipLast ==
    /\ mpc = "enqueue"
    /\ IF enq < Len(ports) - 1
       THEN /\ q' = Append(q, ports[enq + 1])
            /\ unfinished' = unfinished + 1
            /\ enq' = enq + 1
            /\ mpc' = mpc
       ELSE /\ mpc' = "join1"
            /\ UNCHANGED << q, unfinished, enq >>
    /\ UNCHANGED << empty_req, ports, save_csv, threads_count, started,
                    poisoned, csv_file, csv_header, error, summary,
                    wpc, item, is_open, print_lock, csv_lock,
                    open_ports, console, csv_rows, probes, probed_open,
                    open_sockets, connected >>

\* Lines 153-154: one q.put(port).
MainEnqueue ==
    /\ mpc = "enqueue"
    /\ IF enq < Len(ports)
       THEN /\ q' = Append(q, ports[enq + 1])
            /\ unfinished' = unfinished + 1
            /\ enq' = enq + 1
            /\ mpc' = mpc
       ELSE /\ mpc' = "join1"
            /\ UNCHANGED << q, unfinished, enq >>
    /\ UNCHANGED << empty_req, ports, save_csv, threads_count, started,
                    poisoned, csv_file, csv_header, error, summary,
                    wpc, item, is_open, print_lock, csv_lock,
                    open_ports, console, csv_rows, probes, probed_open,
                    open_sockets, connected >>

\* MainJoin1 without the wait: the first q.join() left out.
MainJoin1_noWait ==
    /\ mpc = "join1"
    /\ mpc' = "poison"
    /\ UNCHANGED << empty_req, ports, save_csv, threads_count, started, enq,
                    poisoned, csv_file, csv_header, error, summary,
                    q, unfinished, wpc, item, is_open, print_lock, csv_lock,
                    open_ports, console, csv_rows, probes, probed_open,
                    open_sockets, connected >>

\* MainJoin1 waiting for q to be empty instead of q.join().
MainJoin1_emptyQueue ==
    /\ mpc = "join1"
    /\ q = << >>
    /\ mpc' = "poison"
    /\ UNCHANGED << empty_req, ports, save_csv, threads_count, started, enq,
                    poisoned, csv_file, csv_header, error, summary,
                    q, unfinished, wpc, item, is_open, print_lock, csv_lock,
                    open_ports, console, csv_rows, probes, probed_open,
                    open_sockets, connected >>

\* Line 157: q.join() returns when no task is unfinished.
MainJoin1 ==
    /\ mpc = "join1"
    /\ unfinished = 0
    /\ mpc' = "poison"
    /\ UNCHANGED << empty_req, ports, save_csv, threads_count, started, enq,
                    poisoned, csv_file, csv_header, error, summary,
                    q, unfinished, wpc, item, is_open, print_lock, csv_lock,
                    open_ports, console, csv_rows, probes, probed_open,
                    open_sockets, connected >>

\* MainPoison putting a single stop_signal, whatever the number of threads.
MainPoison_one ==
    /\ mpc = "poison"
    /\ IF poisoned < 1
       THEN /\ q' = Append(q, stop_signal)
            /\ unfinished' = unfinished + 1
            /\ poisoned' = poisoned + 1
            /\ mpc' = mpc
       ELSE /\ mpc' = "join2"
            /\ UNCHANGED << q, unfinished, poisoned >>
    /\ UNCHANGED << empty_req, ports, save_csv, threads_count, started, enq,
                    csv_file, csv_header, error, summary,
                    wpc, item, is_open, print_lock, csv_lock,
                    open_ports, console, csv_rows, probes, probed_open,
                    open_sockets, connected >>

\* Lines 160-161: one q.put(stop_signal) for each started thread.
MainPoison ==
    /\ mpc = "poison"
    /\ IF poisoned < started
       THEN /\ q' = Append(q, stop_signal)
            /\ unfinished' = unfinished + 1
            /\ poisoned' = poisoned + 1
            /\ mpc' = mpc
       ELSE /\ mpc' = "join2"
            /\ UNCHANGED << q, unfinished, poisoned >>
    /\ UNCHANGED << empty_req, ports, save_csv, threads_count, started, enq,
                    csv_file, csv_header, error, summary,
                    wpc, item, is_open, print_lock, csv_lock,
                    open_ports, console, csv_rows, probes, probed_open,
                    open_sockets, connected >>

\* Line 162: the second q.join().
MainJoin2 ==
    /\ mpc = "join2"
    /\ unfinished = 0
    /\ mpc' = "finally"
    /\ UNCHANGED << empty_req, ports, save_csv, threads_count, started, enq,
                    poisoned, csv_file, csv_header, error, summary,
                    q, unfinished, wpc, item, is_open, print_lock, csv_lock,
                    open_ports, console, csv_rows, probes, probed_open,
                    open_sockets, connected >>

\* Lines 164-166: if csv_file: csv_file.close().
CloseCsv == IF csv_file = "open" THEN "closed" ELSE csv_file

\* Lines 164-166: the finally block closes the CSV file.
MainFinally ==
    /\ mpc = "finally"
    /\ csv_file' = CloseCsv
    /\ mpc' = "summary"
    /\ UNCHANGED << empty_req, ports, save_csv, threads_count, started, enq,
                    poisoned, csv_header, error, summary,
                    q, unfinished, wpc, item, is_open, print_lock, csv_lock,
                    open_ports, console, csv_rows, probes, probed_open,
                    open_sockets, connected >>

\* The positions of main inside the try block of lines 144-162.
TryBlock == {"start", "enqueue", "join1", "poison", "join2"}

\* MainException without the finally block: the exception leaves main with
\* the file as it is.
MainException_noFinally ==
    /\ mpc \in TryBlock
    /\ csv_file' = csv_file
    /\ error' = "scan"
    /\ mpc' = "raised"
    /\ UNCHANGED << empty_req, ports, save_csv, threads_count, started, enq,
                    poisoned, csv_header, summary,
                    q, unfinished, wpc, item, is_open, print_lock, csv_lock,
                    open_ports, console, csv_rows, probes, probed_open,
                    open_sockets, connected >>

\* Lines 144-166: an exception raised inside the try block (KeyboardInterrupt
\* while main starts threads, enqueues or waits in q.join(); RuntimeError of
\* t.start()): the finally block closes the CSV file and the exception leaves
\* main, which ends the process and with it the daemon threads.
MainException ==
    /\ mpc \in TryBlock
    /\ csv_file' = CloseCsv
    /\ error' = "scan"
    /\ mpc' = "raised"
    /\ UNCHANGED << empty_req, ports, save_csv, threads_count, started, enq,
                    poisoned, csv_header, summary,
                    q, unfinished, wpc, item, is_open, print_lock, csv_lock,
                    open_ports, console, csv_rows, probes, probed_open,
                    open_sockets, connected >>

\* Lines 169-173: the summary reads open_ports and prints sorted(set(open_ports)),
\* or "No open ports found." when the list is empty.
MainSummary ==
    /\ mpc = "summary"
    /\ summary' = IF open_ports # << >> THEN Sorted(Elems(open_ports)) ELSE << >>
    /\ mpc' = "done"
    /\ UNCHANGED << empty_req, ports, save_csv, threads_count, started, enq,
                    poisoned, csv_file, csv_header, error,
                    q, unfinished, wpc, item, is_open, print_lock, csv_lock,
                    open_ports, console, csv_rows, probes, probed_open,
                    open_sockets, connected >>

(* ----------------------------------------------------------------- worker *)

\* The threads are daemon threads (line 148): they run as long as the process
\* does, that is until an exception has left main.
Running == mpc # "raised"

\* WorkerGet on a LifoQueue: the newest item is removed.
WorkerGet_lifo(w) ==
    /\ Running
    /\ wpc[w] = "get"
    /\ q # << >>
    /\ item' = [item EXCEPT ![w] = q[Len(q)]]
    /\ q' = SubSeq(q, 1, Len(q) - 1)
    /\ wpc' = [wpc EXCEPT ![w] = IF q[Len(q)] = stop_signal THEN "stop" ELSE "scan"]
    /\ UNCHANGED << empty_req, ports, save_csv, threads_count, mpc, started,
                    enq, poisoned, csv_file, csv_header, error, summary,
                    unfinished, is_open, print_lock, csv_lock,
                    open_ports, console, csv_rows, probes, probed_open,
                    open_sockets, connected >>

\* Lines 76-80: item = q.get() blocks while q is empty; a stop_signal sends the
\* worker to its exit, a port to the probe.
WorkerGet(w) ==
    /\ Running
    /\ wpc[w] = "get"
    /\ q # << >>
    /\ item' = [item EXCEPT ![w] = Head(q)]
    /\ q' = Tail(q)
    /\ wpc' = [wpc EXCEPT ![w] = IF Head(q) = stop_signal THEN "stop" ELSE "scan"]
    /\ UNCHANGED << empty_req, ports, save_csv, threads_count, mpc, started,
                    enq, poisoned, csv_file, csv_header, error, summary,
                    unfinished, is_open, print_lock, csv_lock,
                    open_ports, console, csv_rows, probes, probed_open,
                    open_sockets, connected >>

\* Lines 77-79: q.task_done() for the stop_signal, then break: the thread ends.
WorkerStop(w) ==
    /\ Running
    /\ wpc[w] = "stop"
    /\ unfinished' = unfinished - 1
    /\ wpc' = [wpc EXCEPT ![w] = "exited"]
    /\ UNCHANGED << empty_req, ports, save_csv, threads_count, mpc, started,
                    enq, poisoned, csv_file, csv_header, error, summary,
                    q, item, is_open, print_lock, csv_lock,
                    open_ports, console, csv_rows, probes, probed_open,
                    open_sockets, connected >>

\* What a connection attempt can come to.
ConnectOutcomes == {"connected", "refused", "timeout", "unreachable", "dns_failure"}

\* Line 68: s.connect_ex raises for a failure outside the connect() call
\* itself (socket.gaierror when the host does not resolve) ...
ConnectRaises(o) == o = "dns_failure"

\* ... and returns 0 or the errno of the failed connect() otherwise.
ConnectEx(o) ==
    CASE o = "connected" -> 0
      [] o = "refused" -> 111
      [] o = "timeout" -> 11
      [] o = "unreachable" -> 113

\* Lines 67-70: what scan_port returns: connect_ex(...) == 0, and False when
\* connect_ex raised.
ScanPortResult(o) == IF ConnectRaises(o) THEN FALSE ELSE ConnectEx(o) = 0

\* Lines 81 and 65-66: the call of scan_port and its first statements, which
\* are outside the try block: socket.socket() returns a socket, or raises
\* OSError when the process cannot get a descriptor.  Nothing catches that
\* exception: it ends the thread, the item unmarked.  No lock is held here.
WorkerScan(w) ==
    /\ Running
    /\ wpc[w] = "scan"
    /\ \E created \in BOOLEAN :
         IF created
         THEN /\ open_sockets' = open_sockets \cup {w}
              /\ wpc' = [wpc EXCEPT ![w] = "connect"]
         ELSE /\ open_sockets' = open_sockets
              /\ wpc' = [wpc EXCEPT ![w] = "raised_scan"]
    /\ UNCHANGED << empty_req, ports, save_csv, threads_count, mpc, started,
                    enq, poisoned, csv_file, csv_header, error, summary,
                    q, unfinished, item, is_open, print_lock, csv_lock,
                    open_ports, console, csv_rows, probes, probed_open,
                    connected >>

\* Lines 67-72 and 81-84: the connection attempt, the finally block closing
\* the socket, and the return of scan_port into is_open.
WorkerConnect(w) ==
    /\ Running
    /\ wpc[w] = "connect"
    /\ \E o \in ConnectOutcomes :
         /\ is_open' = [is_open EXCEPT ![w] = ScanPortResult(o)]
         /\ probed_open' = IF ScanPortResult(o) THEN probed_open \cup {item[w]}
                           ELSE probed_open
         /\ connected' = IF o = "connected" THEN connected \cup {item[w]}
                         ELSE connected
    /\ open_sockets' = open_sockets \ {w}
    /\ probes' = [probes EXCEPT ![item[w]] = @ + 1]
    /\ wpc' = [wpc EXCEPT ![w] = "print_lock"]
    /\ UNCHANGED << empty_req, ports, save_csv, threads_count, mpc, started,
                    enq, poisoned, csv_file, csv_header, error, summary,
                    q, unfinished, item, print_lock, csv_lock,
                    open_ports, console, csv_rows >>

\* WorkerAcquirePrint without the lock: the print section entered at once.
WorkerAcquirePrint_noLock(w) ==
    /\ Running
    /\ wpc[w] = "print_lock"
    /\ print_lock' = w
    /\ wpc' = [wpc EXCEPT ![w] = "print"]
    /\ UNCHANGED << empty_req, ports, save_csv, threads_count, mpc, started,
                    enq, poisoned, csv_file, csv_header, error, summary,
                    q, unfinished, item, is_open, csv_lock,
                    open_ports, console, csv_rows, probes, probed_open,
                    open_sockets, connected >>

\* Line 87: with print_lock: blocks while another thread holds the lock.
WorkerAcquirePrint(w) ==
    /\ Running
    /\ wpc[w] = "print_lock"
    /\ print_lock = 0
    /\ print_lock' = w
    /\ wpc' = [wpc EXCEPT ![w] = "print"]
    /\ UNCHANGED << empty_req, ports, save_csv, threads_count, mpc, started,
                    enq, poisoned, csv_file, csv_header, error, summary,
                    q, unfinished, item, is_open, csv_lock,
                    open_ports, console, csv_rows, probes, probed_open,
                    open_sockets, connected >>

\* Line 95: is there a CSV row to write for this item?
CsvWanted == save_csv /\ csv_file # "none"

AfterPrint == IF CsvWanted THEN "csv_lock" ELSE "task_done"

\* WorkerPrint with the with block ending after the print: the lock is
\* released before open_ports.append(port).
WorkerPrint_releaseEarly(w) ==
    /\ Running
    /\ wpc[w] = "print"
    /\ print_lock' = 0
    /\ \E raises \in BOOLEAN :
         IF raises
         THEN /\ wpc' = [wpc EXCEPT ![w] = "raised_print"]
              /\ console' = console
         ELSE /\ console' = Append(console, << item[w], Status(is_open[w]) >>)
              /\ wpc' = [wpc EXCEPT ![w] = IF is_open[w] THEN "append" ELSE AfterPrint]
    /\ UNCHANGED << empty_req, ports, save_csv, threads_count, mpc, started,
                    enq, poisoned, csv_file, csv_header, error, summary,
                    q, unfinished, item, is_open, csv_lock,
                    open_ports, csv_rows, probes, probed_open,
                    open_sockets, connected >>

\* WorkerPrint printing a line for the open ports only.
WorkerPrint_onlyOpen(w) ==
    /\ Running
    /\ wpc[w] = "print"
    /\ \E raises \in BOOLEAN :
         IF raises
         THEN /\ wpc' = [wpc EXCEPT ![w] = "raised_print"]
              /\ print_lock' = 0
              /\ console' = console
         ELSE IF is_open[w]
              THEN /\ console' = Append(console, << item[w], Status(is_open[w]) >>)
                   /\ wpc' = [wpc EXCEPT ![w] = "append"]
                   /\ print_lock' = print_lock
              ELSE /\ console' = console
                   /\ wpc' = [wpc EXCEPT ![w] = AfterPrint]
                   /\ print_lock' = 0
    /\ UNCHANGED << empty_req, ports, save_csv, threads_count, mpc, started,
                    enq, poisoned, csv_file, csv_header, error, summary,
                    q, unfinished, item, is_open, csv_lock,
                    open_ports, csv_rows, probes, probed_open,
                    open_sockets, connected >>

\* WorkerPrint with open_ports.append(port) outside the if: closed ports are
\* appended too.
WorkerPrint_appendClosed(w) ==
    /\ Running
    /\ wpc[w] = "print"
    /\ \E raises \in BOOLEAN :
         IF raises
         THEN /\ wpc' = [wpc EXCEPT ![w] = "raised_print"]
              /\ print_lock' = 0
              /\ console' = console
         ELSE /\ console' = Append(console, << item[w], Status(is_open[w]) >>)
              /\ wpc' = [wpc EXCEPT ![w] = "append"]
              /\ print_lock' = print_lock
    /\ UNCHANGED << empty_req, ports, save_csv, threads_count, mpc, started,
                    enq, poisoned, csv_file, csv_header, error, summary,
                    q, unfinished, item, is_open, csv_lock,
                    open_ports, csv_rows, probes, probed_open,
                    open_sockets, connected >>

\* Lines 88-89 and 91-92: the print of the item's line.  A print that raises
\* leaves the with block (the lock is released) and, nothing catching it, ends
\* the thread: the item is never marked done.
WorkerPrint(w) ==
    /\ Running
    /\ wpc[w] = "print"
    /\ \E raises \in BOOLEAN :
         IF raises
         THEN /\ wpc' = [wpc EXCEPT ![w] = "raised_print"]
              /\ print_lock' = 0
              /\ console' = console
         ELSE /\ console' = Append(console, << item[w], Status(is_open[w]) >>)
              /\ IF is_open[w]
                 THEN /\ wpc' = [wpc EXCEPT ![w] = "append"]
                      /\ print_lock' = print_lock
                 ELSE /\ wpc' = [wpc EXCEPT ![w] = AfterPrint]
                      /\ print_lock' = 0
    /\ UNCHANGED << empty_req, ports, save_csv, threads_count, mpc, started,
                    enq, poisoned, csv_file, csv_header, error, summary,
                    q, unfinished, item, is_open, csv_lock,
                    open_ports, csv_rows, probes, probed_open,
                    open_sockets, connected >>

\* Line 90: open_ports.append(port), still under print_lock, then the lock is
\* released at the end of the with block.
WorkerAppend(w) ==
    /\ Running
    /\ wpc[w] = "append"
    /\ open_ports' = Append(open_ports, item[w])
    /\ print_lock' = 0
    /\ wpc' = [wpc EXCEPT ![w] = AfterPrint]
    /\ UNCHANGED << empty_req, ports, save_csv, threads_count, mpc, started,
                    enq, poisoned, csv_file, csv_header, error, summary,
                    q, unfinished, item, is_open, csv_lock,
                    console, csv_rows, probes, probed_open,
                    open_sockets, connected >>

\* Line 96: with csv_lock.
WorkerAcquireCsv(w) ==
    /\ Running
    /\ wpc[w] = "csv_lock"
    /\ csv_lock = 0
    /\ csv_lock' = w
    /\ wpc' = [wpc EXCEPT ![w] = "csv"]
    /\ UNCHANGED << empty_req, ports, save_csv, threads_count, mpc, started,
                    enq, poisoned, csv_file, csv_header, error, summary,
                    q, unfinished, item, is_open, print_lock,
                    open_ports, console, csv_rows, probes, probed_open,
                    open_sockets, connected >>

\* WorkerWriteCsv with csv_lock acquired by hand and never released.
WorkerWriteCsv_keepLock(w) ==
    /\ Running
    /\ wpc[w] = "csv"
    /\ csv_lock' = csv_lock
    /\ \E raises \in BOOLEAN :
         IF raises \/ csv_file # "open"
         THEN /\ wpc' = [wpc EXCEPT ![w] = "raised_csv"]
              /\ csv_rows' = csv_rows
         ELSE /\ csv_rows' = Append(csv_rows, << item[w], Status(is_open[w]) >>)
              /\ wpc' = [wpc EXCEPT ![w] = "task_done"]
    /\ UNCHANGED << empty_req, ports, save_csv, threads_count, mpc, started,
                    enq, poisoned, csv_file, csv_header, error, summary,
                    q, unfinished, item, is_open, print_lock,
                    open_ports, console, probes, probed_open,
                    open_sockets, connected >>

\* Line 97: csv_writer.writerow(...), then the lock is released.  The write
\* raises when the sink fails or the file is closed; the exception ends the
\* thread as in WorkerPrint.
WorkerWriteCsv(w) ==
    /\ Running
    /\ wpc[w] = "csv"
    /\ csv_lock' = 0
    /\ \E raises \in BOOLEAN :
         IF raises \/ csv_file # "open"
         THEN /\ wpc' = [wpc EXCEPT ![w] = "raised_csv"]
              /\ csv_rows' = csv_rows
         ELSE /\ csv_rows' = Append(csv_rows, << item[w], Status(is_open[w]) >>)
              /\ wpc' = [wpc EXCEPT ![w] = "task_done"]
    /\ UNCHANGED << empty_req, ports, save_csv, threads_count, mpc, started,
                    enq, poisoned, csv_file, csv_header, error, summary,
                    q, unfinished, item, is_open, print_lock,
                    open_ports, console, probes, probed_open,
                    open_sockets, connected >>

\* Line 99: q.task_done(), then back to the top of the loop.
WorkerTaskDone(w) ==
    /\ Running
    /\ wpc[w] = "task_done"
    /\ unfinished' = unfinished - 1
    /\ wpc' = [wpc EXCEPT ![w] = "get"]
    /\ UNCHANGED << empty_req, ports, save_csv, threads_count, mpc, started,
                    enq, poisoned, csv_file, csv_header, error, summary,
                    q, item, is_open, print_lock, csv_lock,
                    open_ports, console, csv_rows, probes, probed_open,
                    open_sockets, connected >>

(* ---------------------------------------------------------- specification *)

Main ==
    \/ MainReadConfig
    \/ MainOpenCsv
    \/ MainWriteHeader
    \/ MainStartThread
    \/ MainEnqueue
    \/ MainJoin1
    \/ MainPoison
    \/ MainJoin2
    \/ MainFinally
    \/ MainSummary

Worker(w) ==
    \/ WorkerGet(w)
    \/ WorkerStop(w)
    \/ WorkerScan(w)
    \/ WorkerConnect(w)
    \/ WorkerAcquirePrint(w)
    \/ WorkerPrint(w)
    \/ WorkerAppend(w)
    \/ WorkerAcquireCsv(w)
    \/ WorkerWriteCsv(w)
    \/ WorkerTaskDone(w)

Next == Main \/ MainException \/ \E w \in Threads : Worker(w)

Spec == Init /\ [][Next]_vars

\* The threads are operating-system threads: each one that can take a step
\* eventually takes it.
FairSpec ==
    /\ Spec
    /\ WF_vars(Main)
    /\ \A w \in Threads : WF_vars(Worker(w))

(* ------------------------------------------------------------ properties *)

\* The number of elements of the list s equal to p.
Count(s, p) == Cardinality({ i \in 1..Len(s) : s[i] = p })

\* The number of output lines or rows of out that are about port p.
Lines(out, p) == Cardinality({ i \in 1..Len(out) : out[i][1] = p })

\* The ports of the output lines or rows, in output order.
PortsOf(out) == [i \in 1..Len(out) |-> out[i][1]]

\* main is past both q.join() calls.
Drains == {"finally", "summary", "done"}

\* The thread was ended by an exception of a sink write.
Dead(w) == wpc[w] \in {"raised_print", "raised_csv"}

\* The thread was ended by an exception: of a sink write, or of scan_port.
Ended(w) == Dead(w) \/ wpc[w] = "raised_scan"

\* The worker has popped an item it has not marked done.
Holding(w) ==
    wpc[w] \in {"scan", "connect", "print_lock", "print", "append", "csv_lock",
                "csv", "task_done", "stop", "raised_print", "raised_csv",
                "raised_scan"}

\* Nothing pushed is left unmarked: q is empty and no worker holds an item.
Drained == q = << >> /\ \A w \in Threads : ~Holding(w)

\* main has printed the summary and every started thread has left its loop.
Finished == mpc = "done" /\ \A w \in 1..threads_count : wpc[w] = "exited"

\* C1 (completeness): once main is past both q.join() calls, scan_port has
\* returned exactly once for every element of the port list, and for no other
\* port: nothing enqueued is skipped or probed twice.
C1_Completeness ==
    mpc \in Drains => \A p \in AllPorts : probes[p] = Count(ports, p)

C1_Witness ==
    /\ mpc = "summary"
    /\ threads_count = 2
    /\ Len(ports) = 2
    /\ \A p \in AllPorts : probes[p] = Count(ports, p)

\* C2 (no lost or duplicate dispatch): no sink ever has more lines for a port
\* than the port list has elements for it, every line carries the result of
\* that port's probe, and once main is past both q.join() calls the console has
\* exactly one line per enqueued port, and so has the CSV file when save_csv is
\* on (and none when it is off).
C2_DispatchOnce ==
    /\ \A p \in AllPorts :
         /\ Lines(console, p) <= Count(ports, p)
         /\ Lines(csv_rows, p) <= Count(ports, p)
    /\ \A i \in 1..Len(console) :
         console[i][2] = Status(console[i][1] \in probed_open)
    /\ \A i \in 1..Len(csv_rows) :
         csv_rows[i][2] = Status(csv_rows[i][1] \in probed_open)
    /\ mpc \in Drains =>
         \A p \in AllPorts :
           /\ Lines(console, p) = Count(ports, p)
           /\ Lines(csv_rows, p) = IF save_csv THEN Count(ports, p) ELSE 0

C2_Witness ==
    /\ mpc = "summary"
    /\ save_csv
    /\ threads_count = 2
    /\ Len(console) = 2
    /\ Len(csv_rows) = 2

\* C3 (drain ordering): when the first q.join() has returned (main is about to
\* put the first stop_signal), and from the return of the second one on, no
\* item is left in q and no worker holds an item it has not marked done.
C3_DrainOrdering ==
    /\ (mpc = "poison" /\ poisoned = 0) => Drained
    /\ mpc \in Drains => Drained

C3_Witness ==
    /\ mpc = "poison"
    /\ poisoned = 0
    /\ threads_count = 2
    /\ Len(ports) = 2
    /\ Drained

\* C4 (sink failure does not stop the worker): no worker thread is ever ended
\* by a failing sink write with its item left unmarked.
C4_WorkerSurvivesSinkFailure == \A w \in Threads : ~Dead(w)

\* C5 (sink isolation): under fair scheduling, a scan whose setup succeeded,
\* whose CSV sink raises on every write (no row is ever written), whose
\* console sink and probes never raise and which no exception interrupts
\* eventually completes, the console having one line for every enqueued port.
C5_SinkIsolation ==
    (mpc = "start" /\ save_csv)
      ~> \/ mpc = "done" /\ \A p \in AllPorts : Lines(console, p) = Count(ports, p)
         \/ csv_rows # << >>
         \/ \E w \in Threads : wpc[w] \in {"raised_print", "raised_scan"}
         \/ mpc = "raised"

\* C6 (termination): under fair scheduling, unless main is ended by an
\* exception, a sink write fails or a probe does not return, main eventually
\* prints the summary and every started thread eventually leaves its loop.
C6_Termination ==
    <>(Finished \/ mpc = "raised" \/ \E w \in Threads : Ended(w))

C6_Witness ==
    /\ Finished
    /\ Len(ports) < threads_count

\* C7 (summary): the ports the summary reports are exactly the enqueued ports
\* for which scan_port returned True, in ascending order without repetition.
C7_Summary ==
    mpc = "done" =>
      /\ Elems(summary) = probed_open \cap Elems(ports)
      /\ \A i \in 1..(Len(summary) - 1) : summary[i] < summary[i + 1]

C7_Witness ==
    /\ mpc = "done"
    /\ threads_count = 2
    /\ Len(summary) = 1
    /\ Len(ports) = 2

\* C8 (single-worker ordering): with one thread, the console lines and the CSV
\* rows always follow the order of the port list, and they are complete once
\* main is past both q.join() calls.
C8_SingleWorkerOrder ==
    threads_count = 1 =>
      /\ PortsOf(console) = SubSeq(ports, 1, Len(console))
      /\ PortsOf(csv_rows) = SubSeq(ports, 1, Len(csv_rows))
      /\ mpc \in Drains =>
           /\ Len(console) = Len(ports)
           /\ Len(csv_rows) = IF save_csv THEN Len(ports) ELSE 0

C8_Witness ==
    /\ threads_count = 1
    /\ mpc = "done"
    /\ save_csv
    /\ Len(ports) = 2
    /\ PortsOf(csv_rows) = ports
    /\ PortsOf(console) = ports

\* C9 (setup failure): when open() of the CSV file has raised, main has ended
\* with that exception; no thread was started, no port was enqueued or probed,
\* no per-port line was printed and no CSV file is open.
C9_SetupFailure ==
    error = "open" =>
      /\ mpc = "raised"
      /\ started = 0
      /\ \A w \in Threads : wpc[w] = "idle"
      /\ enq = 0
      /\ q = << >>
      /\ \A p \in AllPorts : probes[p] = 0
      /\ console = << >>
      /\ csv_file # "open"

C9_Witness == error = "open" /\ mpc = "raised" /\ save_csv

\* C10 (empty work-list): when the range the user asked for is empty
\* (start > end), no thread is started and no port is probed.
C10_EmptyRejected ==
    empty_req =>
      /\ started = 0
      /\ \A p \in AllPorts : probes[p] = 0

\* C11 (probe normalization): scan_port returns True exactly for the ports on
\* which the connection succeeded, is_open is always a boolean, no socket is
\* left open once scan_port is over, and no thread is ended by an exception
\* of scan_port.
C11_ProbeNormalization ==
    /\ probed_open = connected
    /\ \A w \in Threads : is_open[w] \in BOOLEAN
    /\ \A w \in open_sockets : wpc[w] = "connect"
    /\ \A w \in Threads : wpc[w] # "raised_scan"

\* C17 (CSV release): when main has printed or is about to print the summary,
\* and when an exception raised inside the try block has left main, the CSV
\* file is not open.
C17_CsvReleased ==
    (mpc \in {"summary", "done"} \/ (mpc = "raised" /\ error = "scan"))
      => csv_file # "open"

C17_Witness ==
    /\ mpc = "raised"
    /\ error = "scan"
    /\ csv_file = "closed"
    /\ started = 2
    /\ enq >= 1

\* The worker has popped a port it has not marked done.
PortInHand(w) == Holding(w) /\ wpc[w] # "stop"

\* A stop_signal is in q or has been popped and not yet acknowledged.
PoisonAbout ==
    \/ \E i \in 1..Len(q) : q[i] = stop_signal
    \/ \E w \in Threads : wpc[w] = "stop"

\* C12 (two-phase shutdown): main never puts more stop_signal values than it
\* started threads, and has put exactly one per thread when it waits the
\* second time; the first one is put only when every port has been enqueued
\* and probed; and whenever a stop_signal is in q or being popped, q holds no
\* port and no worker has a port in hand.
C12_TwoPhaseShutdown ==
    /\ poisoned <= started
    /\ poisoned > 0 =>
         /\ enq = Len(ports)
         /\ \A p \in AllPorts : probes[p] = Count(ports, p)
    /\ mpc \in ({"join2"} \cup Drains) =>
         /\ poisoned = started
         /\ started = threads_count
    /\ PoisonAbout =>
         /\ \A i \in 1..Len(q) : q[i] = stop_signal
         /\ \A w \in Threads : ~PortInHand(w)

C12_Witness ==
    /\ mpc = "join2"
    /\ poisoned = 2
    /\ Len(ports) = 2
    /\ Len(q) = 1
    /\ \E w \in Threads : wpc[w] = "stop"

\* The number of threads in the set of positions pcs.
At(pcs) == Cardinality({ w \in Threads : wpc[w] \in pcs })

\* C13 (worker exit protocol): a thread ends only by popping a stop_signal and
\* acknowledging it, never with a port in hand; every stop_signal put on q is
\* in q, in the hand of one thread, or was acknowledged by one thread that
\* ended on it; and once the second q.join() has returned every started thread
\* has ended that way.
C13_WorkerExit ==
    /\ \A w \in Threads : ~Ended(w)
    /\ \A w \in Threads : wpc[w] \in {"stop", "exited"} => item[w] = stop_signal
    /\ poisoned = Count(q, stop_signal) + At({"stop", "exited"})
    /\ mpc \in Drains => \A w \in 1..started : wpc[w] = "exited"

\* The worker is inside the with print_lock block, or inside the with csv_lock
\* block.
InConsole(w) == wpc[w] \in {"print", "append"}
InCsv(w) == wpc[w] = "csv"

\* C14 (per-sink mutual exclusion): at most one thread is inside the console
\* section and at most one inside the CSV section, and it is the holder of the
\* section's lock.
C14_SinkMutex ==
    \A w1, w2 \in Threads :
      /\ InConsole(w1) => print_lock = w1
      /\ InCsv(w1) => csv_lock = w1
      /\ InConsole(w1) /\ InConsole(w2) => w1 = w2
      /\ InCsv(w1) /\ InCsv(w2) => w1 = w2

C14_Witness ==
    \E w1, w2 \in Threads :
      /\ InConsole(w1)
      /\ wpc[w2] = "print_lock"

\* C15 (open_ports access discipline): every step that changes open_ports is
\* the append of its port by the thread that holds print_lock; and when main
\* reads open_ports for the summary, q is empty and every thread has ended or
\* was never started.
C15_OpenPortsDiscipline ==
    [][ /\ open_ports' # open_ports =>
             \E w \in Threads :
               /\ print_lock = w
               /\ wpc[w] = "append"
               /\ open_ports' = Append(open_ports, item[w])
        /\ (mpc = "summary" /\ mpc' = "done") =>
             /\ q = << >>
             /\ \A w \in Threads : wpc[w] \in {"idle", "exited"}
      ]_vars

C15_Witness ==
    /\ mpc = "done"
    /\ threads_count = 2
    /\ Len(open_ports) = 2

\* The worker is inside scan_port.
InProbe(w) == wpc[w] \in {"scan", "connect"}

\* C16 (no lock across a network call): a thread inside scan_port holds
\* neither print_lock nor csv_lock.
C16_NoLockInProbe ==
    \A w \in Threads : InProbe(w) => (print_lock # w /\ csv_lock # w)

C16_Witness ==
    \E w1, w2 \in Threads :
      /\ wpc[w1] = "connect"
      /\ InCsv(w2)
      /\ probes[item[w2]] = 1

\* C18 (task counter): the unfinished-task count of q is the number of items
\* in q plus the number of items a live thread has popped and not marked
\* done, and it is never negative.
C18_TaskCounter ==
    /\ unfinished = Len(q) + Cardinality({ w \in Threads : Holding(w) /\ ~Ended(w) })
    /\ unfinished >= 0

\* C19 (no early drain): from the return of the first q.join() on, every port
\* of the list has been enqueued, probed once and printed once, although the
\* unfinished-task count may have been zero while main was still enqueuing.
C19_NoEarlyDrain ==
    mpc \in ({"poison", "join2"} \cup Drains) =>
      /\ enq = Len(ports)
      /\ \A p \in AllPorts :
           /\ probes[p] = Count(ports, p)
           /\ Lines(console, p) = Count(ports, p)

C19_Witness ==
    /\ mpc = "enqueue"
    /\ enq > 0
    /\ enq < Len(ports)
    /\ unfinished = 0

\* C20 (no write after close): when main has closed the CSV file on normal
\* completion, q is empty and every started thread has ended on its
\* stop_signal: none is in the CSV section or can enter it.
C20_NoWriteAfterClose ==
    (csv_file = "closed" /\ error = "none") =>
      /\ q = << >>
      /\ \A w \in Threads : wpc[w] \in {"idle", "exited"}

C20_Witness ==
    /\ csv_file = "closed"
    /\ error = "none"
    /\ threads_count = 2
    /\ Len(csv_rows) = 2

====
